---- MODULE Spec2Model ----
(***************************************************************************)
(* Symbolic block analysis of VTIL-Compiler/analysis/symbolic_analysis.hpp *)
(* symbolic_segment (the segment VM), symbolic_analysis::update (the block *)
(* partitioner), ::prepare (simplification and conditional-jump recovery)  *)
(* and ::reemit (the re-emitter).                                          *)
(*                                                                         *)
(* Positions of a block are 1..Len(block); the end iterator is Len+1.      *)
(* The expression layer, the default instruction interpreter, the memory   *)
(* model, the batch translator and the block container live outside the    *)
(* analysed file; they are modelled from their documented contract.        *)
(***************************************************************************)
EXTENDS Integers, Sequences, FiniteSets, TLC

\* ------------------------------------------------------------------ bounds

\* Longest instruction body of a block (the terminating branch comes on top).
MaxBody == 3
\* Most prepare() calls made on one analysis.
MaxPrepare == 2
\* Longest instruction body of a block of the scan alphabet.
MaxScanBody == 4
\* Number of flag bits a block of the writeback alphabet may write.
MaxFlags == 5
\* Longest run of other instructions before the flag writes of such a block.
MaxMixed == 2

\* ------------------------------------------------------- expression layer

\* A symbolic expression: a tree of nodes of one shape.
\*   op  : "const" | "reg" | "mem" | "not" | "ucast" | "add" | "ifs"
\*   args: operand sub-expressions (for "mem": the backing pointer)
\*   n   : constant value / bit offset of a register variable
\*   id  : weak register identity of a register variable
\*   at  : origin position of a variable (the segment_begin it is read at)
\*   w   : bit width
Const(n, w) == [op |-> "const", args |-> <<>>, n |-> n, id |-> "", at |-> 0, w |-> w]
RegVar(id, off, w, at) == [op |-> "reg", args |-> <<>>, n |-> off, id |-> id, at |-> at, w |-> w]
MemVar(ptr, w, at) == [op |-> "mem", args |-> <<ptr>>, n |-> 0, id |-> "", at |-> at, w |-> w]
Un(op, a, w) == [op |-> op, args |-> <<a>>, n |-> 0, id |-> "", at |-> 0, w |-> w]
Bin(op, a, b, w) == [op |-> op, args |-> <<a, b>>, n |-> 0, id |-> "", at |-> 0, w |-> w]

\* The null expression reference.
NoExpr == [op |-> "none", args |-> <<>>, n |-> 0, id |-> "", at |-> 0, w |-> 0]

IsConst(e) == e.op = "const"
IsVariable(e) == e.op \in {"reg", "mem"}
IsMemory(e) == e.op = "mem"

Max(a, b) == IF a >= b THEN a ELSE b

\* expression::depth : variables and constants are 0, an operator is one more
\* than its deepest operand.
RECURSIVE Depth(_)
Depth(e) ==
    IF e.op \in {"const", "reg", "mem", "none"} THEN 0
    ELSE IF Len(e.args) = 1 THEN 1 + Depth(e.args[1])
    ELSE 1 + Max(Depth(e.args[1]), Depth(e.args[2]))

\* value.unknown_mask() | value.known_one(), abstracted to 0 (no bit can be
\* set), 1 (only bit 0 can be set) or 2 (some higher bit can be set).
RECURSIVE ValueMask(_)
ValueMask(e) ==
    CASE e.op = "const" -> IF e.n = 0 THEN 0 ELSE IF e.n = 1 THEN 1 ELSE 2
      [] e.op \in {"reg", "mem"} -> IF e.w = 1 THEN 1 ELSE 2
      [] e.op = "not" ->
            IF e.w # 1 THEN 2
            ELSE IF IsConst(e.args[1]) THEN (IF e.args[1].n = 0 THEN 1 ELSE 0)
            ELSE 1
      [] e.op = "ucast" ->
            IF e.w = 1 /\ ValueMask(e.args[1]) = 2 THEN 1 ELSE ValueMask(e.args[1])
      [] e.op = "ifs" ->
            IF ValueMask(e.args[1]) = 0 THEN 0 ELSE ValueMask(e.args[2])
      [] e.op = "add" ->
            IF ValueMask(e.args[1]) = 0 THEN ValueMask(e.args[2])
            ELSE IF ValueMask(e.args[2]) = 0 THEN ValueMask(e.args[1])
            ELSE 2
      [] OTHER -> 2

\* A constant operand takes the width of the operation.
Widen(e, w) == IF IsConst(e) THEN Const(e.n, w) ELSE e

\* expression::simplify( pack ): bottom-up normalisation.  Variables are
\* leaves.  With pack set, (c ? 1 : 0) is packed into a zero extension of c.
RECURSIVE Simplify(_, _)
Simplify(e, pack) ==
    CASE e.op \in {"const", "reg", "mem", "none"} -> e
      [] e.op = "not" ->
            LET a == Simplify(e.args[1], pack) IN
            IF IsConst(a) /\ e.w = 1 THEN Const(1 - a.n, 1)
            ELSE IF a.op = "not" THEN a.args[1]
            ELSE Un("not", a, e.w)
      [] e.op = "ucast" ->
            LET a == Simplify(e.args[1], pack) IN
            IF IsConst(a) THEN Const(a.n, e.w)
            ELSE IF a.w = e.w THEN a
            ELSE Un("ucast", a, e.w)
      [] e.op = "ifs" ->
            LET c == Simplify(e.args[1], pack)
                v == Widen(Simplify(e.args[2], pack), e.w) IN
            IF IsConst(c) THEN (IF c.n # 0 THEN v ELSE Const(0, e.w))
            ELSE IF IsConst(v) /\ v.n = 0 THEN Const(0, e.w)
            ELSE IF pack /\ IsConst(v) /\ v.n = 1 /\ ValueMask(c) # 2
                 THEN Simplify(Un("ucast", c, e.w), pack)
            ELSE Bin("ifs", c, v, e.w)
      [] e.op = "add" ->
            LET a == Widen(Simplify(e.args[1], pack), e.w)
                b == Widen(Simplify(e.args[2], pack), e.w) IN
            IF IsConst(a) /\ IsConst(b) THEN Const(a.n + b.n, e.w)
            ELSE IF IsConst(b) /\ b.n = 0 THEN a
            ELSE IF IsConst(a) /\ a.n = 0 THEN b
            ELSE IF IsConst(a) THEN Simplify(Bin("add", b, a, e.w), pack)
            ELSE IF IsConst(b) /\ a.op = "add" /\ IsConst(a.args[2])
                 THEN Simplify(Bin("add", a.args[1], Const(a.args[2].n + b.n, e.w), e.w), pack)
            ELSE Bin("add", a, b, e.w)
      [] OTHER -> e

\* operator~ on a simplified expression (auto-simplifying).
Inverse(e) == Simplify(Un("not", e, e.w), TRUE)

\* A pointer as base + constant: the base expression (NoExpr for a constant
\* pointer) and the constant displacement, of a simplified expression.
Linear(s) ==
    IF IsConst(s) THEN [base |-> NoExpr, off |-> s.n]
    ELSE IF s.op = "add" /\ IsConst(s.args[2]) THEN [base |-> s.args[1], off |-> s.args[2].n]
    ELSE [base |-> s, off |-> 0]
Lin(e) == Linear(Simplify(e, FALSE))
LinBase(e) == Lin(e).base
LinOff(e) == Lin(e).off

\* ( a - b ).get<int64_t>() / pointer subtraction: whether the difference is
\* a constant, and the constant.
Difference(la, lb) == [has |-> la.base = lb.base, delta |-> la.off - lb.off]
Subtract(a, b) == Difference(Lin(a), Lin(b))
HasDelta(a, b) == Subtract(a, b).has
Delta(a, b) == Subtract(a, b).delta

\* ------------------------------------------------- registers, instructions

\* Weak register identities and their capability flags.
\*   sp: stack pointer      ra, rb: general purpose     fl: flags register
\*   vr: volatile           ud: the undefined marker (volatile + undefined)
\*   base: read-only (the image base)
\*   t0..: temporaries allocated by basic_block::tmp
IsStackPointer(id) == id = "sp"
IsVolatileReg(id) == id \in {"vr", "ud"}
IsUndefinedReg(id) == id = "ud"
IsFlagsReg(id) == id = "fl"
IsReadOnlyReg(id) == id = "base"

\* Operands.
R(id, off, cnt) == [reg |-> TRUE, id |-> id, off |-> off, cnt |-> cnt, imm |-> 0]
I(n, w) == [reg |-> FALSE, id |-> "", off |-> 0, cnt |-> w, imm |-> n]

\* register_desc::get_mask as the set of bit positions.
MaskOf(op) == {b \in 0..15 : op.off <= b /\ b < op.off + op.cnt}

\* An instruction.  sp_offset and sp_index are filled in by the block.
Ins(base, ops, vol) ==
    [base |-> base, ops |-> ops, vol |-> vol, sp_offset |-> 0, sp_index |-> 0]

IsBranching(ins) == ins.base \in {"vexit", "vxcall", "jmp", "js"}
\* The opcodes whose first operand is written.
WritesFirst(ins) == ins.base \in {"mov", "add", "not", "ifs", "ldd"}
WritesSp(ins) ==
    WritesFirst(ins) /\ ins.ops[1].reg /\ IsStackPointer(ins.ops[1].id)

\* ------------------------------------------------------------ segment VM

\* symbolic_segment( it ): a fresh segment.
NewSegment(it) ==
    [exit_reason |-> "none",
     segment_begin |-> it,
     segment_end |-> 0,
     suffix |-> <<>>,
     is_branch_real |-> FALSE,
     is_branch_exiting |-> FALSE,
     branch_cc |-> NoExpr,
     branch_targets |-> <<>>,
     is_executing |-> FALSE,
     memory_state |-> <<>>,
     register_state |-> <<>>,
     register_references |-> <<>>,
     memory_references |-> {}]

\* register_state is a function from the weak identities written so far to
\* [bitmap, linear_store]; linear_store maps the bit offset a value was
\* written at to the value and bitmap is the set of these offsets.
\* (<<>> is the function with the empty domain.)
RegStateSize(rs) == Cardinality(DOMAIN rs)

\* symbolic::context::read: the value and the mask of the bits resolved from
\* writes.  Accesses of the model are to whole slices: a slice is either a
\* written value or the register-at-origin variable.
RegKnown(rs, op) ==
    IF op.id \in DOMAIN rs /\ op.off \in DOMAIN rs[op.id].linear_store
    THEN MaskOf(op) ELSE {}
RegRead(rs, op, origin) ==
    IF op.id \in DOMAIN rs /\ op.off \in DOMAIN rs[op.id].linear_store
    THEN rs[op.id].linear_store[op.off]
    ELSE RegVar(op.id, op.off, op.cnt, origin)

\* symbolic::context::write.
RegWrite(rs, op, value) ==
    LET old == IF op.id \in DOMAIN rs THEN rs[op.id]
               ELSE [bitmap |-> {}, linear_store |-> <<>>]
        new == [bitmap |-> old.bitmap \cup {op.off},
                linear_store |->
                    [o \in DOMAIN old.linear_store \cup {op.off} |->
                        IF o = op.off THEN value ELSE old.linear_store[o]]]
    IN [i \in DOMAIN rs \cup {op.id} |-> IF i = op.id THEN new ELSE rs[i]]

\* A variant that records every bit read, resolved or not.
TouchRegisterResolved(seg, op) ==
    LET refs == seg.register_references
        old == IF op.id \in DOMAIN refs THEN refs[op.id] ELSE {}
    IN IF seg.is_executing
       THEN [seg EXCEPT !.register_references =
                [i \in DOMAIN refs \cup {op.id} |->
                    IF i = op.id THEN old \cup MaskOf(op) ELSE refs[i]]]
       ELSE seg
\* read_register: the references recorded by one read.
TouchRegister(seg, op) ==
    LET unknown == MaskOf(op) \ RegKnown(seg.register_state, op)
        refs == seg.register_references
        old == IF op.id \in DOMAIN refs THEN refs[op.id] ELSE {}
    IN IF seg.is_executing /\ unknown # {}
       THEN [seg EXCEPT !.register_references =
                [i \in DOMAIN refs \cup {op.id} |->
                    IF i = op.id THEN old \cup unknown ELSE refs[i]]]
       ELSE seg
\* read_register: the value returned.
ReadRegister(seg, op) == RegRead(seg.register_state, op, seg.segment_begin)

\* write_register: the value is stored lazily (unsimplified).
WriteRegister(seg, op, value) ==
    [seg EXCEPT !.register_state = RegWrite(seg.register_state, op, value)]

\* symbolic::memory::write: accepted when every existing entry provably is
\* the same cell (overwritten in place) or provably another one.  All cells
\* of the model have one size and displacements are multiples of it.
MemAccepts(ms, ptr) == \A i \in 1..Len(ms) : HasDelta(ms[i].ptr, ptr)
SameCell(ms, ptr) == {i \in 1..Len(ms) : Delta(ms[i].ptr, ptr) = 0}
Overwrite(ms, same, cell) ==
    IF same # {} THEN [i \in 1..Len(ms) |-> IF i \in same THEN cell ELSE ms[i]]
    ELSE Append(ms, cell)
MemWrite(ms, ptr, value) == Overwrite(ms, SameCell(ms, ptr), [ptr |-> ptr, val |-> value])

\* symbolic::memory::read: the value of the cell when an entry provably is
\* that cell, and the memory-at-origin variable otherwise.
MemKnown(ms, ptr) == SameCell(ms, ptr) \cap {i \in 1..Len(ms) : HasDelta(ms[i].ptr, ptr)}
MemRead(ms, ptr, w, origin) ==
    IF MemKnown(ms, ptr) # {} THEN ms[CHOOSE i \in MemKnown(ms, ptr) : TRUE].val
    ELSE MemVar(ptr, w, origin)

\* read_memory: the references recorded by one read, and the value returned.
TouchMemory(seg, ptr, w) ==
    IF seg.is_executing /\ MemKnown(seg.memory_state, ptr) = {}
    THEN [seg EXCEPT !.memory_references = @ \cup {[ptr |-> ptr, bits |-> 0..(w - 1)]}]
    ELSE seg
ReadMemory(seg, ptr, w) == MemRead(seg.memory_state, ptr, w, seg.segment_begin)

\* The touch of every register operand the instruction reads.
RECURSIVE TouchAll(_, _)
TouchAll(seg, ops) ==
    IF ops = <<>> THEN seg
    ELSE TouchAll(IF ops[1].reg THEN TouchRegister(seg, ops[1]) ELSE seg, Tail(ops))

\* An operand as an expression: a register is traced through the segment,
\* and the stack pointer has the instruction's virtual offset added; an
\* immediate is a constant of its width.
CvtOperand(seg, ins, i) ==
    LET op == ins.ops[i] IN
    IF op.reg
    THEN LET result == ReadRegister(seg, op) IN
         IF IsStackPointer(op.id)
         THEN Bin("add", result, Const(ins.sp_offset, op.cnt), op.cnt)
         ELSE result
    ELSE Const(op.imm, op.cnt)

\* Resize of a value to the width of its destination.
Resize(v, w) ==
    IF v.w = w THEN v ELSE IF IsConst(v) THEN Const(v.n, w) ELSE Un("ucast", v, w)

\* write_memory as the interpreter uses it: a store the memory does not
\* accept stops the VM with alias_failure.
Store(seg, ptr, value) ==
    IF MemAccepts(seg.memory_state, ptr)
    THEN [seg |-> [seg EXCEPT !.memory_state = MemWrite(seg.memory_state, ptr, value)],
          reason |-> "none"]
    ELSE [seg |-> seg, reason |-> "alias_failure"]

\* Memory is read in whole bytes: byte_count * 8 bits.
ByteBits(cnt) == ((cnt + 7) \div 8) * 8

\* The pointer a load reads through.
LoadPointer(seg, ins) ==
    Simplify(Bin("add", ReadRegister(seg, ins.ops[2]),
                 Const(ins.ops[3].imm, ins.ops[2].cnt), ins.ops[2].cnt), FALSE)

\* vm_interface::execute: the default interpreter.  Result: the segment
\* after the instruction and the exit reason ("none" to continue).
\*   mov d, s        d := s
\*   add d, s        d := d + s
\*   not d           d := ~d
\*   ifs d, c, s     d := c ? s : 0
\*   str b, o, s     [b + o] := s   (the displacement of a $sp-relative
\*                   access already holds the virtual offset)
\*   ldd d, b, o     d := [b + o]
\*   mulhi d, s      not representable: the interpreter gives up
InterpreterExecute(seg, ins) ==
    LET dst == ins.ops[1] IN
    CASE ins.base = "mov" ->
            [seg |-> WriteRegister(TouchAll(seg, <<ins.ops[2]>>), dst,
                                   Resize(CvtOperand(seg, ins, 2), dst.cnt)),
             reason |-> "none"]
      [] ins.base = "add" ->
            [seg |-> WriteRegister(TouchAll(seg, ins.ops), dst,
                        Bin("add", CvtOperand(seg, ins, 1),
                            Resize(CvtOperand(seg, ins, 2), dst.cnt), dst.cnt)),
             reason |-> "none"]
      [] ins.base = "not" ->
            [seg |-> WriteRegister(TouchAll(seg, ins.ops), dst,
                        Un("not", CvtOperand(seg, ins, 1), dst.cnt)),
             reason |-> "none"]
      [] ins.base = "ifs" ->
            [seg |-> WriteRegister(TouchAll(seg, Tail(ins.ops)), dst,
                        Bin("ifs", CvtOperand(seg, ins, 2),
                            Resize(CvtOperand(seg, ins, 3), dst.cnt), dst.cnt)),
             reason |-> "none"]
      [] ins.base = "str" ->
            Store(TouchAll(seg, <<ins.ops[1], ins.ops[3]>>),
                  Simplify(Bin("add", ReadRegister(seg, ins.ops[1]),
                               Const(ins.ops[2].imm, ins.ops[1].cnt),
                               ins.ops[1].cnt), FALSE),
                  CvtOperand(seg, ins, 3))
      [] ins.base = "ldd" ->
            [seg |-> WriteRegister(
                        TouchMemory(TouchAll(seg, <<ins.ops[2]>>),
                                    LoadPointer(seg, ins), ByteBits(dst.cnt)),
                        dst,
                        Resize(ReadMemory(seg, LoadPointer(seg, ins), ByteBits(dst.cnt)),
                               dst.cnt)),
             reason |-> "none"]
      [] ins.base = "mulhi" -> [seg |-> seg, reason |-> "high_arithmetic"]
      [] OTHER -> [seg |-> seg, reason |-> "unknown_instruction"]

\* symbolic_segment::execute.
ExecuteBranch(seg, ins) ==
    CASE ins.base \in {"vexit", "vxcall"} ->
            [TouchAll(seg, <<ins.ops[1]>>) EXCEPT
                !.branch_targets = Append(seg.branch_targets, CvtOperand(seg, ins, 1)),
                !.is_branch_real = TRUE,
                !.is_branch_exiting = (ins.base = "vexit"),
                !.branch_cc = NoExpr]
      [] ins.base = "jmp" ->
            [TouchAll(seg, <<ins.ops[1]>>) EXCEPT
                !.branch_targets = Append(seg.branch_targets, CvtOperand(seg, ins, 1)),
                !.is_branch_real = FALSE,
                !.branch_cc = NoExpr]
      [] ins.base = "js" ->
            [TouchAll(seg, ins.ops) EXCEPT
                !.branch_targets = seg.branch_targets \o
                    <<CvtOperand(seg, ins, 2), CvtOperand(seg, ins, 3)>>,
                !.is_branch_real = FALSE,
                !.branch_cc = CvtOperand(seg, ins, 1)]

VolatileGate(ins) == ins.vol
\* A variant that has lost the negation on is_undefined.
GateOnlyUndefined(ins) ==
    \E i \in 1..Len(ins.ops) :
        ins.ops[i].reg /\ IsVolatileReg(ins.ops[i].id) /\ IsUndefinedReg(ins.ops[i].id)

VolatileRegisterGate(ins) ==
    \E i \in 1..Len(ins.ops) :
        ins.ops[i].reg /\ IsVolatileReg(ins.ops[i].id) /\ ~IsUndefinedReg(ins.ops[i].id)

\* The body of execute, entered with is_executing set.
Dispatch(s, ins) ==
    IF IsBranching(ins)
    THEN [seg |-> ExecuteBranch(s, ins), reason |-> "stream_end"]
    ELSE IF VolatileGate(ins)
    THEN [seg |-> s, reason |-> "unknown_instruction"]
    ELSE IF VolatileRegisterGate(ins)
    THEN [seg |-> s, reason |-> "unknown_instruction"]
    ELSE InterpreterExecute(s, ins)
\* A variant that returns with is_executing still set.
LeaveExecuting(r) == r

\* The return of execute, with is_executing cleared.
Leave(r) == [seg |-> [r.seg EXCEPT !.is_executing = FALSE], reason |-> r.reason]
Execute(seg, ins) == Leave(Dispatch([seg EXCEPT !.is_executing = TRUE], ins))

\* vm_interface::run: executes from `it` until an instruction stops the VM
\* or the stream ends.  The iterator returned is the instruction that
\* stopped the VM; a branch is covered by its segment, so the iterator is
\* then one past it; at the end of the block the reason is stream_end.
RECURSIVE Run(_, _, _)
RECURSIVE Stepped(_, _, _)
Stepped(r, blk, it) ==
    IF r.reason = "none" THEN Run(r.seg, blk, it + 1)
    ELSE IF r.reason = "stream_end"
    THEN [seg |-> r.seg, it |-> it + 1, reason |-> r.reason]
    ELSE [seg |-> r.seg, it |-> it, reason |-> r.reason]
\* A variant that takes the last instruction of the block for its end.
RunShort(seg, blk, it) ==
    IF it >= Len(blk) THEN [seg |-> seg, it |-> it, reason |-> "stream_end"]
    ELSE Stepped(Execute(seg, blk[it]), blk, it)

Run(seg, blk, it) ==
    IF it > Len(blk) THEN [seg |-> seg, it |-> it, reason |-> "stream_end"]
    ELSE Stepped(Execute(seg, blk[it]), blk, it)

\* ------------------------------------------------------ block partitioner

\* segments.emplace_back( it ): the segment a VM run starts from.
EmplaceSegment(it) == NewSegment(it)

\* The segment once its run has returned.
CloseSegment(r) == [r.seg EXCEPT !.exit_reason = r.reason, !.segment_end = r.it]

\* A variant that pops every segment but the first, empty or not.
PopAlways(segs, seg) == IF Len(segs) + 1 > 1 THEN segs ELSE Append(segs, seg)

\* A variant that keeps every segment, empty or not.
PopNever(segs, seg) == Append(segs, seg)

\* "If VM state is empty, and this is not the first segment, pop it":
\* the list the stopping instruction is attached to.
PopIfEmpty(segs, seg) ==
    IF Len(seg.memory_state) = 0
       /\ RegStateSize(seg.register_state) = 0
       /\ Len(segs) + 1 > 1
    THEN segs ELSE Append(segs, seg)

\* A variant that appends the instruction and leaves segment_end behind.
AppendSuffixStaleEnd(last, it) == [last EXCEPT !.suffix = Append(last.suffix, it)]

\* seg->suffix.emplace_back( it++ ); seg->segment_end = it.
AppendSuffix(last, it) ==
    [last EXCEPT !.suffix = Append(last.suffix, it), !.segment_end = it + 1]

\* A variant that consumes the stopping instruction whatever the reason.
ResumePast(reason, it) == it + 1

\* Where the loop goes on after a run that stopped at `it`: past the
\* instruction, unless the stop was an alias failure.
ResumeAt(reason, it) == IF reason # "alias_failure" THEN it + 1 ELSE it

\* The loop of symbolic_analysis::update from position `it`, with the
\* segments made so far; the result is the list when the loop is left.
RECURSIVE UpdateLoop(_, _, _)
\* A variant that drops the stopping instruction instead of attaching it.
AttachNothing(kept, it) == kept
\* The stopping instruction appended to the suffix of the last segment kept.
Attach(kept, it) == [kept EXCEPT ![Len(kept)] = AppendSuffix(kept[Len(kept)], it)]
\* The body of the loop once the run has returned r and closed seg.
AfterRun(blk, segs, r, seg) ==
    IF r.reason = "stream_end" THEN Append(segs, seg)
    ELSE IF r.reason # "alias_failure"
    THEN UpdateLoop(blk, Attach(PopIfEmpty(segs, seg), r.it), ResumeAt(r.reason, r.it))
    ELSE UpdateLoop(blk, Append(segs, seg), ResumeAt(r.reason, r.it))
Ran(blk, segs, r) == AfterRun(blk, segs, r, CloseSegment(r))
UpdateLoop(blk, segs, it) ==
    IF it > Len(blk) THEN segs
    ELSE Ran(blk, segs, Run(EmplaceSegment(it), blk, it))

\* symbolic_analysis::update.
UpdateSegments(blk) == UpdateLoop(blk, <<>>, 1)

\* ------------------------------------------------------ preparation pass

\* The rewriter cctfm of prepare, applied by expression::transform to every
\* node from the root down: the backing pointer of a memory variable is
\* rewritten first; then a possible condition equal to the candidate is
\* replaced by the expected value, one equal to its inverse by the opposite.
RECURSIVE Rewrite(_, _, _, _)
Repointed(e, mexp) == IF mexp # e.args[1] THEN MemVar(mexp, e.w, e.at) ELSE e
Replaced(p, ccexp, inv_cc, expected) ==
    IF ValueMask(p) = 1 /\ p = ccexp THEN Const(IF expected THEN 1 ELSE 0, 1)
    ELSE IF ValueMask(p) = 1 /\ p = inv_cc THEN Const(IF expected THEN 0 ELSE 1, 1)
    ELSE IF IsVariable(p) \/ IsConst(p) THEN p
    ELSE [p EXCEPT !.args =
             [i \in 1..Len(p.args) |-> Rewrite(p.args[i], ccexp, inv_cc, expected)]]
Rewrite(e, ccexp, inv_cc, expected) ==
    Replaced(IF IsVariable(e) /\ IsMemory(e)
             THEN Repointed(e, Simplify(Rewrite(e.args[1], ccexp, inv_cc, expected), TRUE))
             ELSE e,
             ccexp, inv_cc, expected)

\* A variant that transforms without simplifying the result.
TransformLazy(statement, ccexp, expected) ==
    Rewrite(statement, ccexp, Inverse(ccexp), expected)

\* statement.transform( cctfm ): the rewritten statement, simplified.
Transform(statement, ccexp, expected) ==
    Simplify(Rewrite(statement, ccexp, Inverse(ccexp), expected), TRUE)

\* "If both expressions simplified, convert into JS branch."
Commit(ccexp, st, cnd_sat, cnd_nsat) ==
    IF cnd_sat # st.branch_targets[1] /\ cnd_nsat # st.branch_targets[1]
    THEN [branch_cc |-> ccexp, branch_targets |-> <<cnd_sat, cnd_nsat>>]
    ELSE st

\* A variant that commits the condition and keeps the single target.
TryCommitKeepTargets(ccexp, st) ==
    IF /\ Transform(st.branch_targets[1], ccexp, TRUE) # st.branch_targets[1]
       /\ Transform(st.branch_targets[1], ccexp, FALSE) # st.branch_targets[1]
    THEN [branch_cc |-> ccexp, branch_targets |-> st.branch_targets]
    ELSE st

\* The body of ccscan for a possible condition: both statements are built
\* from branch_targets[ 0 ] and committed when both differ from it.
TryCommit(ccexp, st) ==
    Commit(ccexp, st, Transform(st.branch_targets[1], ccexp, TRUE),
           Transform(st.branch_targets[1], ccexp, FALSE))

\* expression::enumerate( ccscan ): ccscan on the node, then on its operands
\* (pre-order).  ccscan returns at once when a condition is already set;
\* otherwise it first enumerates the pointer of a memory variable and then
\* tries the node itself.
RECURSIVE Enumerate(_, _)
RECURSIVE EnumerateArgs(_, _)
Scanned(ccexp, st) == IF ValueMask(ccexp) = 1 THEN TryCommit(ccexp, st) ELSE st
CCScan(ccexp, st) ==
    IF st.branch_cc # NoExpr THEN st
    ELSE Scanned(ccexp, IF IsVariable(ccexp) /\ IsMemory(ccexp)
                        THEN Enumerate(ccexp.args[1], st) ELSE st)

\* A variant that visits the operands of a node before the node.
EnumerateOperandsFirst(e, st) ==
    CCScan(e, EnumerateArgs(IF IsVariable(e) \/ IsConst(e) THEN <<>> ELSE e.args, st))

Enumerate(e, st) ==
    EnumerateArgs(IF IsVariable(e) \/ IsConst(e) THEN <<>> ELSE e.args, CCScan(e, st))
EnumerateArgs(args, st) ==
    IF args = <<>> THEN st ELSE EnumerateArgs(Tail(args), Enumerate(args[1], st))

\* A variant that simplifies the targets and leaves the condition as it is.
SimplifyTargetsOnly(seg) ==
    [branch_cc |-> seg.branch_cc,
     branch_targets |-> [i \in 1..Len(seg.branch_targets) |->
                            Simplify(seg.branch_targets[i], TRUE)]]

\* "Simplify the branch": the targets and the condition, simplified.
SimplifyBranch(seg) ==
    [branch_cc |-> IF seg.branch_cc # NoExpr THEN Simplify(seg.branch_cc, TRUE) ELSE NoExpr,
     branch_targets |-> [i \in 1..Len(seg.branch_targets) |->
                            Simplify(seg.branch_targets[i], TRUE)]]
\* "If non-const JMP, try converting into JS."
Recover(st) ==
    IF st.branch_cc = NoExpr /\ Depth(st.branch_targets[1]) > 2
    THEN Enumerate(st.branch_targets[1], st) ELSE st
Committed(seg, res) ==
    [seg EXCEPT !.branch_cc = res.branch_cc, !.branch_targets = res.branch_targets]

\* The branch part of prepare for one segment.
PrepareBranch(seg) ==
    IF Len(seg.branch_targets) = 0 THEN seg
    ELSE Committed(seg, Recover(SimplifyBranch(seg)))

\* prepare( pack ) for one segment.
PrepareSegment(seg, pack) ==
    LET rs == seg.register_state
        regs == [id \in DOMAIN rs |->
                    [rs[id] EXCEPT !.linear_store =
                        [o \in DOMAIN rs[id].linear_store |->
                            Simplify(rs[id].linear_store[o], pack)]]]
        mem == [i \in 1..Len(seg.memory_state) |->
                    [seg.memory_state[i] EXCEPT !.val = Simplify(@, pack)]]
    IN PrepareBranch([seg EXCEPT !.register_state = regs, !.memory_state = mem])

\* symbolic_analysis::prepare.
PrepareSegments(segs, pack) == [i \in 1..Len(segs) |-> PrepareSegment(segs[i], pack)]

\* ---------------------------------------------------------------- blocks

Ra == R("ra", 0, 8)
Rb == R("rb", 0, 8)
Sp == R("sp", 0, 8)
Fl0 == R("fl", 0, 1)
Fl1 == R("fl", 1, 1)

\* Instruction bodies are drawn from alphabets: three for the blocks of the
\* main specification, and one each for the blocks whose branch is scanned
\* for a condition, the blocks with a suffix and the blocks that write flags.
PartitionOps ==
    { Ins("mov", <<Ra, I(1, 8)>>, FALSE),
      Ins("str", <<Ra, I(0, 8), Rb>>, FALSE),
      Ins("str", <<Rb, I(0, 8), I(2, 8)>>, FALSE),
      Ins("vpinr", <<Ra>>, TRUE),
      Ins("mov", <<Ra, R("vr", 0, 8)>>, FALSE),
      Ins("mov", <<Rb, R("ud", 0, 8)>>, FALSE),
      Ins("mulhi", <<Ra, Rb>>, FALSE) }
BranchOps ==
    { Ins("mov", <<Ra, Fl0>>, FALSE),
      Ins("add", <<Ra, Rb>>, FALSE),
      Ins("not", <<Fl0>>, FALSE),
      Ins("ifs", <<Ra, Fl0, I(4, 8)>>, FALSE),
      Ins("mov", <<Fl0, I(1, 1)>>, FALSE),
      Ins("mov", <<Rb, I(2, 8)>>, FALSE) }
StackOps ==
    { Ins("add", <<Sp, I(8, 8)>>, FALSE),
      Ins("mov", <<Sp, Ra>>, FALSE),
      Ins("str", <<Sp, I(0, 8), Ra>>, FALSE),
      Ins("mov", <<Ra, Sp>>, FALSE),
      Ins("vpinr", <<Rb>>, TRUE),
      Ins("mov", <<Rb, I(1, 8)>>, FALSE) }
ScanOps ==
    { Ins("mov", <<Ra, Fl0>>, FALSE),
      Ins("ldd", <<Rb, Ra, I(0, 8)>>, FALSE),
      Ins("add", <<Rb, Fl1>>, FALSE),
      Ins("not", <<Rb>>, FALSE) }

\* The terminating branch of a block, if it has one: each alphabet comes with
\* the branches its blocks may end in and the longest body drawn from it.
Jmp(target) == <<Ins("jmp", <<target>>, FALSE)>>
Js == <<Ins("js", <<Fl0, Ra, Rb>>, FALSE)>>
Vexit == <<Ins("vexit", <<Ra>>, FALSE)>>
Vxcall == <<Ins("vxcall", <<Ra>>, FALSE)>>
Alphabets ==
    { [ops |-> PartitionOps, ends |-> {<<>>, Jmp(Ra)}, len |-> MaxBody],
      [ops |-> BranchOps, ends |-> {<<>>, Jmp(Ra), Js, Vexit, Vxcall}, len |-> MaxBody],
      [ops |-> StackOps, ends |-> {<<>>, Jmp(I(16, 8))}, len |-> MaxBody] }
\* The blocks of the writeback alphabet: a run of instructions that write
\* $sp and general registers (one reads the read-only base), then a 1-bit
\* write to each flag of a set of flags, lowest first.
MixedOps ==
    { Ins("add", <<Sp, I(8, 8)>>, FALSE),
      Ins("mov", <<Rb, R("base", 0, 8)>>, FALSE),
      Ins("mov", <<Ra, I(1, 8)>>, FALSE) }
FlagBits == 0..(MaxFlags - 1)
FlagWrite(b) == Ins("mov", <<R("fl", b, 1), I(1, 1)>>, FALSE)
FlagWrites(bits) == [j \in 1..Len(bits) |-> FlagWrite(bits[j])]
\* The blocks of the suffix alphabet: stack and register writes, a store,
\* and two instructions the VM stops at, one of them a volatile load that
\* reads memory relative to $sp.
SuffixOps ==
    { Ins("add", <<Sp, I(8, 8)>>, FALSE),
      Ins("mov", <<Sp, Ra>>, FALSE),
      Ins("mov", <<Ra, I(1, 8)>>, FALSE),
      Ins("str", <<Rb, I(0, 8), Ra>>, FALSE),
      Ins("ldd", <<Rb, Sp, I(4, 8)>>, TRUE),
      Ins("vpinr", <<Ra>>, TRUE) }
SuffixAlphabets ==
    { [ops |-> SuffixOps, ends |-> {<<>>, Jmp(Ra)}, len |-> MaxBody] }
ScanAlphabets ==
    { [ops |-> ScanOps, ends |-> {Jmp(Rb)}, len |-> MaxScanBody] }


\* basic_block::emplace_back over a stream: every instruction records the
\* block's sp_offset and sp_index; a write to $sp resets the queued offset
\* and starts a new index.  `shifted` is the position before which
\* shift_sp( -8 ) was called (0: never).
RECURSIVE Emplace(_, _, _, _, _)
Emplace(done, todo, sp_offset, sp_index, shifted) ==
    IF todo = <<>>
    THEN [ins |-> done, sp_offset |-> sp_offset, sp_index |-> sp_index,
          last_temporary_index |-> 0]
    ELSE LET off == IF Len(done) + 1 = shifted THEN sp_offset - 8 ELSE sp_offset
             ins == [todo[1] EXCEPT !.sp_offset = off, !.sp_index = sp_index]
         IN IF WritesSp(ins)
            THEN Emplace(Append(done, ins), Tail(todo), 0, sp_index + 1, shifted)
            ELSE Emplace(Append(done, ins), Tail(todo), off, sp_index, shifted)

MakeBlock(stream, shifted) == Emplace(<<>>, stream, 0, 0, shifted)

\* ------------------------------------------------------------ re-emitter

\* The temporary block of reemit.  Next to the block's fields it keeps two
\* records of the emission: log[i] tells which segment and which step of
\* reemit appended ins[i], and recon[s] what the stack-pointer
\* reconciliation of segment s did; fault names the fatal assertion that
\* failed, if one did.
NewTemporaryBlock(blk) ==
    [ins |-> <<>>, sp_offset |-> 0, sp_index |-> 0,
     last_temporary_index |-> blk.last_temporary_index,
     log |-> <<>>, recon |-> <<>>, fault |-> "none"]

Tag(idx, role) == [seg |-> idx, role |-> role]

\* basic_block::emplace_back: the instruction records the block's stack
\* position; a write to $sp resets the queued offset and starts a new index.
EmplaceBack(tb, ins, tag) ==
    LET placed == [ins EXCEPT !.sp_offset = tb.sp_offset, !.sp_index = tb.sp_index]
    IN [tb EXCEPT !.ins = Append(tb.ins, placed),
                  !.log = Append(tb.log, tag),
                  !.sp_offset = IF WritesSp(ins) THEN 0 ELSE tb.sp_offset,
                  !.sp_index = IF WritesSp(ins) THEN tb.sp_index + 1 ELSE tb.sp_index]

\* basic_block::np_emplace_back: appended as it is.
NpEmplaceBack(tb, ins, tag) ==
    [tb EXCEPT !.ins = Append(tb.ins, ins), !.log = Append(tb.log, tag)]

\* basic_block::shift_sp: advances the virtual stack pointer, emits nothing.
ShiftSp(tb, delta) == [tb EXCEPT !.sp_offset = tb.sp_offset + delta]

\* basic_block::tmp( bit_count ): a fresh temporary.
TmpReg(tb, w) == R("t" \o ToString(tb.last_temporary_index), 0, w)
TmpTaken(tb) == [tb EXCEPT !.last_temporary_index = tb.last_temporary_index + 1]

\* batch_translator::operator<<: the operand holding the value of the
\* expression.  A constant is an immediate; a register variable is copied
\* into a temporary where the segment starts, before any writeback; an
\* operation is computed into a temporary.  The instructions go straight
\* into the block.
RECURSIVE Translate(_, _, _)
Translate(e, tb, idx) ==
    CASE e.op = "const" -> [opnd |-> I(e.n, e.w), tb |-> tb]
      [] e.op = "reg" ->
            LET t == TmpReg(tb, e.w) IN
            [opnd |-> t,
             tb |-> EmplaceBack(TmpTaken(tb), Ins("mov", <<t, R(e.id, e.n, e.w)>>, FALSE),
                                Tag(idx, "lift"))]
      [] e.op \in {"not", "ucast"} ->
            LET a == Translate(e.args[1], tb, idx)
                t == TmpReg(a.tb, e.w)
                moved == EmplaceBack(TmpTaken(a.tb), Ins("mov", <<t, a.opnd>>, FALSE),
                                     Tag(idx, "lift"))
            IN [opnd |-> t,
                tb |-> IF e.op = "not"
                       THEN EmplaceBack(moved, Ins("not", <<t>>, FALSE), Tag(idx, "lift"))
                       ELSE moved]
      [] e.op = "add" ->
            LET a == Translate(e.args[1], tb, idx)
                b == Translate(e.args[2], a.tb, idx)
                t == TmpReg(b.tb, e.w)
                moved == EmplaceBack(TmpTaken(b.tb), Ins("mov", <<t, a.opnd>>, FALSE),
                                     Tag(idx, "lift"))
            IN [opnd |-> t,
                tb |-> EmplaceBack(moved, Ins("add", <<t, b.opnd>>, FALSE), Tag(idx, "lift"))]
      [] e.op = "ifs" ->
            LET c == Translate(e.args[1], tb, idx)
                v == Translate(e.args[2], c.tb, idx)
                t == TmpReg(v.tb, e.w)
            IN [opnd |-> t,
                tb |-> EmplaceBack(TmpTaken(v.tb), Ins("ifs", <<t, c.opnd, v.opnd>>, FALSE),
                                   Tag(idx, "lift"))]
      [] e.op = "mem" ->
            LET a == Translate(e.args[1], tb, idx)
                b == TmpReg(a.tb, e.args[1].w)
                held == IF a.opnd.reg THEN a.tb
                        ELSE EmplaceBack(TmpTaken(a.tb), Ins("mov", <<b, a.opnd>>, FALSE),
                                         Tag(idx, "lift"))
                t == TmpReg(held, e.w)
            IN [opnd |-> t,
                tb |-> EmplaceBack(TmpTaken(held),
                                   Ins("ldd", <<t, IF a.opnd.reg THEN a.opnd ELSE b, I(0, 8)>>,
                                       FALSE),
                                   Tag(idx, "lift"))]
      [] OTHER -> [opnd |-> I(0, e.w), tb |-> tb]

\* A set in the order its members are iterated.
RECURSIVE Ordered(_)
Ordered(S) ==
    IF S = {} THEN <<>>
    ELSE LET x == CHOOSE y \in S : TRUE IN <<x>> \o Ordered(S \ {x})
RECURSIVE Ascending(_)
Ascending(S) ==
    IF S = {} THEN <<>>
    ELSE LET x == CHOOSE y \in S : \A z \in S : y <= z IN <<x>> \o Ascending(S \ {x})
SetMax(S) == CHOOSE y \in S : \A z \in S : z <= y

\* The state threaded through the buffering steps: the temporary block (the
\* translator writes into it) and the instruction buffer with its tags.
Buffered(st, ins, tag) ==
    [st EXCEPT !.buffer = Append(st.buffer, [ins |-> ins, tag |-> tag])]

\* instruction_buffer.emplace_back( &ins::mov, k, translator << v ).
BufferMov(st, v, k, tag) ==
    Buffered([st EXCEPT !.tb = v.tb], Ins("mov", <<k, v.opnd>>, FALSE), tag)

\* The flags-register path: one mov to the exact bit per set bit.
RECURSIVE FlagBitWritebacks(_, _, _, _, _)
FlagBitWritebacks(st, store, k, bits, idx) ==
    IF bits = <<>> THEN st
    ELSE FlagBitWritebacks(
            BufferMov(st, Translate(store[bits[1]], st.tb, idx),
                      R(k.id, k.off + bits[1], 1), Tag(idx, "reg")),
            store, k, Tail(bits), idx)

\* register_desc k = { pair.first, write_size, write_msb }.
WriteDesc(id, val) == R(id, SetMax(val.bitmap), val.linear_store[SetMax(val.bitmap)].w)

\* "Validate the register output": the fatal assertion of the general path.
Validated(st, k) ==
    IF ~IsStackPointer(k.id) /\ ~IsReadOnlyReg(k.id) THEN st
    ELSE [st EXCEPT !.tb = [st.tb EXCEPT !.fault = "register output"]]

\* The general path: the register is read through the VM, packed, and
\* written back with one mov.
FullWriteback(st, vm, k, idx) ==
    BufferMov(st, Translate(Simplify(ReadRegister(vm, k), TRUE), st.tb, idx),
              k, Tag(idx, "reg"))

\* The writeback of a changed register that is not the stack pointer.
WritebackTo(st, vm, val, k, idx) ==
    IF IsFlagsReg(k.id) /\ Cardinality(val.bitmap) <= 4
    THEN FlagBitWritebacks(st, val.linear_store, k, Ascending(val.bitmap), idx)
    ELSE FullWriteback(Validated(st, k), vm, k, idx)

\* A variant that does not skip the stack pointer.
RegisterWritebackOfAll(st, vm, id, idx) ==
    IF vm.register_state[id].bitmap = {} THEN st
    ELSE WritebackTo(st, vm, vm.register_state[id],
                     WriteDesc(id, vm.register_state[id]), idx)

\* The body of the register loop for one entry of register_state.
RegisterWriteback(st, vm, id, idx) ==
    IF vm.register_state[id].bitmap = {} \/ IsStackPointer(id) THEN st
    ELSE WritebackTo(st, vm, vm.register_state[id],
                     WriteDesc(id, vm.register_state[id]), idx)

RECURSIVE RegisterLoop(_, _, _, _)
RegisterLoop(st, vm, ids, idx) ==
    IF ids = <<>> THEN st
    ELSE RegisterLoop(RegisterWriteback(st, vm, ids[1], idx), vm, Tail(ids), idx)

\* symbolic::CTX( vm.segment_begin )[ REG_SP ]: $sp where the segment starts.
InitialSp(vm) == RegVar("sp", 0, 8, vm.segment_begin)

\* instruction_buffer.emplace_back( &ins::str, base, offset, translator << v ).
BufferStr(st, v, base, offset, idx) ==
    Buffered([st EXCEPT !.tb = v.tb], Ins("str", <<base, I(offset, 8), v.opnd>>, FALSE),
             Tag(idx, "mem"))

\* The translated base address: an immediate is moved into a temporary.
BaseHeld(st, b, idx) ==
    IF b.opnd.reg THEN [st |-> [st EXCEPT !.tb = b.tb], base |-> b.opnd]
    ELSE [st |-> Buffered([st EXCEPT !.tb = TmpTaken(b.tb)],
                          Ins("mov", <<TmpReg(b.tb, b.opnd.cnt), b.opnd>>, FALSE),
                          Tag(idx, "mem")),
          base |-> TmpReg(b.tb, b.opnd.cnt)]
StoreThrough(h, entry, offset, idx) ==
    BufferStr(h.st, Translate(entry.val, h.st.tb, idx), h.base, offset, idx)

\* "Try to extract the offset from the compound expression": a store
\* through the base of the pointer; a constant pointer is its own base.
PointerWriteback(st, entry, exp, lin, idx) ==
    StoreThrough(BaseHeld(st, Translate(IF lin.base = NoExpr THEN exp ELSE lin.base,
                                        st.tb, idx), idx),
                 entry, IF lin.base = NoExpr THEN 0 ELSE lin.off, idx)

\* The two ways of a memory writeback, by the displacement from $sp.
WritebackAt(st, entry, displacement, idx) ==
    IF displacement.has
    THEN BufferStr(st, Translate(entry.val, st.tb, idx), R("sp", 0, 8),
                   displacement.delta, idx)
    ELSE PointerWriteback(st, entry, Simplify(entry.ptr, FALSE), Lin(entry.ptr), idx)

\* The body of the memory loop for one entry of memory_state.
MemoryWriteback(st, vm, entry, idx) ==
    WritebackAt(st, entry, Subtract(entry.ptr, InitialSp(vm)), idx)

RECURSIVE MemoryLoop(_, _, _, _)
MemoryLoop(st, vm, entries, idx) ==
    IF entries = <<>> THEN st
    ELSE MemoryLoop(MemoryWriteback(st, vm, entries[1], idx), vm, Tail(entries), idx)

\* The branch operands, translated up front.
TargetHeld(st, t) ==
    [st EXCEPT !.tb = t.tb, !.branch_targets = Append(st.branch_targets, t.opnd)]
ConditionHeld(st, c) == [st EXCEPT !.tb = c.tb, !.branch_cc = c.opnd]
RECURSIVE BranchOperands(_, _, _)
BranchOperands(st, targets, idx) ==
    IF targets = <<>> THEN st
    ELSE BranchOperands(TargetHeld(st, Translate(targets[1], st.tb, idx)),
                        Tail(targets), idx)
BranchCondition(st, vm, idx) ==
    IF Len(vm.branch_targets) > 0 /\ vm.branch_cc # NoExpr
    THEN ConditionHeld(st, Translate(vm.branch_cc, st.tb, idx))
    ELSE st

\* A variant that empties the buffer from its back.
RECURSIVE FlushReversed(_, _)
FlushReversed(tb, buffer) ==
    IF buffer = <<>> THEN tb
    ELSE FlushReversed(EmplaceBack(tb, buffer[Len(buffer)].ins, buffer[Len(buffer)].tag),
                       SubSeq(buffer, 1, Len(buffer) - 1))

\* "Emit entire buffer."
RECURSIVE Flush(_, _)
Flush(tb, buffer) ==
    IF buffer = <<>> THEN tb
    ELSE Flush(EmplaceBack(tb, buffer[1].ins, buffer[1].tag), Tail(buffer))

\* sp_it != value_map.end() && sp_it->second.bitmap.
SpWritten(vm) ==
    "sp" \in DOMAIN vm.register_state /\ vm.register_state["sp"].bitmap # {}

\* "Otherwise emit a { mov $sp, x }."
MovSp(v, idx) ==
    [tb |-> EmplaceBack(v.tb, Ins("mov", <<R("sp", 0, 8), v.opnd>>, FALSE), Tag(idx, "sp")),
     sp_offset_d |-> 0]

\* "If $SP + C": shift_sp( delta ); otherwise the mov.
Reconciled(tb, new_sp, delta, idx) ==
    IF delta.has
    THEN [tb |-> ShiftSp(tb, delta.delta), sp_offset_d |-> delta.delta]
    ELSE MovSp(Translate(new_sp, tb, idx), idx)

\* A variant that writes $sp back whenever the segment wrote it.
StackChangeAlwaysMov(tb, vm, idx) ==
    IF ~SpWritten(vm) THEN [tb |-> tb, sp_offset_d |-> 0]
    ELSE MovSp(Translate(ReadRegister(vm, R("sp", 0, 8)), tb, idx), idx)

\* "Emit stack change if relevant": the block after the step and sp_offset_d.
StackChange(tb, vm, idx) ==
    IF ~SpWritten(vm) THEN [tb |-> tb, sp_offset_d |-> 0]
    ELSE Reconciled(tb, ReadRegister(vm, R("sp", 0, 8)),
                    Subtract(ReadRegister(vm, R("sp", 0, 8)), InitialSp(vm)), idx)

\* The opcodes that read memory, and the base of the access.
ReadsMemory(ins) == ins.base \in {"ldd", "vpinm"}
MemoryBase(ins) == IF ins.base = "ldd" THEN 2 ELSE 1

\* "Emit suffix."
RECURSIVE SuffixLoop(_, _, _, _, _, _)
SuffixLoop(tb, blk, suffix, sp_index_d, sp_offset_d, idx) ==
    IF suffix = <<>> THEN tb
    ELSE LET orig == blk.ins[suffix[1]]
             moved == [orig EXCEPT !.sp_index = orig.sp_index + sp_index_d,
                                   !.sp_offset = orig.sp_offset + sp_offset_d]
             ins == IF ReadsMemory(moved) /\ IsStackPointer(moved.ops[MemoryBase(moved)].id)
                    THEN [moved EXCEPT !.ops[MemoryBase(moved) + 1].imm = @ + sp_offset_d]
                    ELSE moved
             placed == NpEmplaceBack(tb, ins, Tag(idx, "suffix"))
         IN SuffixLoop([placed EXCEPT !.sp_index = ins.sp_index,
                                      !.sp_offset = ins.sp_offset],
                       blk, Tail(suffix), sp_index_d, sp_offset_d, idx)
\* A variant that clones the suffix without the shift of the stack offset.
EmitSuffixUnshifted(tb, blk, vm, sp_offset_d, idx) ==
    IF vm.suffix = <<>> THEN tb
    ELSE SuffixLoop(tb, blk, vm.suffix,
                    tb.sp_index - blk.ins[vm.suffix[1]].sp_index, 0, idx)

EmitSuffix(tb, blk, vm, sp_offset_d, idx) ==
    IF vm.suffix = <<>> THEN tb
    ELSE SuffixLoop(tb, blk, vm.suffix,
                    tb.sp_index - blk.ins[vm.suffix[1]].sp_index, sp_offset_d, idx)

\* "Adjust sp_offset": the offset of the last instruction the segment covers.
AdjustSpOffset(tb, blk, vm, sp_offset_d) ==
    [tb EXCEPT !.sp_offset = blk.ins[vm.segment_end - 1].sp_offset + sp_offset_d]

\* A variant that jumps to the first target when the condition is set.
FoldedTargetBySense(branch_cc, branch_targets) ==
    IF branch_cc.imm # 0 THEN branch_targets[1] ELSE branch_targets[2]

\* The target of the jump emitted for a condition that folded to an immediate.
FoldedTarget(branch_cc, branch_targets) ==
    IF branch_cc.imm # 0 THEN branch_targets[2] ELSE branch_targets[1]

\* "Emit branch."
EmitBranch(tb, blk, vm, st, sp_offset_d, idx) ==
    IF st.branch_targets = <<>> THEN tb
    ELSE
    LET tag == Tag(idx, "branch")
        out ==
          IF vm.is_branch_real
          THEN IF ~(vm.branch_cc = NoExpr /\ Len(st.branch_targets) = 1)
               THEN [tb EXCEPT !.fault = "real branch"]
               ELSE IF vm.is_branch_exiting
               THEN EmplaceBack(tb, Ins("vexit", <<st.branch_targets[1]>>, FALSE), tag)
               ELSE EmplaceBack(tb, Ins("vxcall", <<st.branch_targets[1]>>, FALSE), tag)
          ELSE IF vm.branch_cc # NoExpr
          THEN IF Len(st.branch_targets) # 2
               THEN [tb EXCEPT !.fault = "conditional branch"]
               ELSE IF st.branch_cc.reg
               THEN EmplaceBack(tb, Ins("js", <<st.branch_cc, st.branch_targets[1],
                                                st.branch_targets[2]>>, FALSE), tag)
               ELSE EmplaceBack(tb, Ins("jmp", <<FoldedTarget(st.branch_cc,
                                                              st.branch_targets)>>, FALSE), tag)
          ELSE IF Len(st.branch_targets) # 1
               THEN [tb EXCEPT !.fault = "jump"]
               ELSE EmplaceBack(tb, Ins("jmp", <<st.branch_targets[1]>>, FALSE), tag)
    IN [out EXCEPT !.sp_offset = blk.sp_offset + sp_offset_d]

\* The writebacks and the branch operands of a segment: the block with the
\* translator's instructions, the instruction buffer and the operands.
BufferWritebacks(tb, vm, idx) ==
    BranchCondition(
        BranchOperands(
            MemoryLoop(
                RegisterLoop([tb |-> tb, buffer |-> <<>>, branch_targets |-> <<>>,
                              branch_cc |-> NoExpr],
                             vm, Ordered(DOMAIN vm.register_state), idx),
                vm, vm.memory_state, idx),
            vm.branch_targets, idx),
        vm, idx)

\* The note of the reconciliation, the branch, and the end of the body.
EmitLast(tb, blk, vm, idx, st, flushed, sc, adjusted) ==
    [EmitBranch(adjusted, blk, vm, st, sc.sp_offset_d, idx) EXCEPT
        !.recon = Append(tb.recon,
                         [before |-> flushed.sp_offset, after |-> sc.tb.sp_offset,
                          sp_offset_d |-> sc.sp_offset_d, adjusted |-> adjusted.sp_offset])]
\* The suffix and the adjustment of sp_offset.
EmitRest(tb, blk, vm, idx, st, flushed, sc) ==
    EmitLast(tb, blk, vm, idx, st, flushed, sc,
             AdjustSpOffset(EmitSuffix(sc.tb, blk, vm, sc.sp_offset_d, idx),
                            blk, vm, sc.sp_offset_d))
\* The stack change.
EmitStackChange(tb, blk, vm, idx, st, flushed) ==
    EmitRest(tb, blk, vm, idx, st, flushed, StackChange(flushed, vm, idx))
\* The buffer, emitted.
EmitBuffered(tb, blk, vm, idx, st) ==
    EmitStackChange(tb, blk, vm, idx, st, Flush(st.tb, st.buffer))

\* The body of the segment loop of reemit.  A failed assertion aborts.
EmitSegment(tb, blk, vm, idx) ==
    IF tb.fault # "none" THEN tb
    ELSE EmitBuffered(tb, blk, vm, idx, BufferWritebacks(tb, vm, idx))

RECURSIVE EmitSegments(_, _, _, _)
EmitSegments(tb, blk, segs, idx) ==
    IF idx > Len(segs) THEN tb
    ELSE EmitSegments(EmitSegment(tb, blk, segs[idx], idx), blk, segs, idx + 1)

\* symbolic_analysis::reemit: the temporary block when the loop is left.
ReemitBlock(blk, segs) == EmitSegments(NewTemporaryBlock(blk), blk, segs, 1)

\* block->assign( temporary_block ) and the copy of the stack position.
Assigned(tb) ==
    [ins |-> tb.ins, sp_offset |-> tb.sp_offset, sp_index |-> tb.sp_index,
     last_temporary_index |-> tb.last_temporary_index]

\* The descriptors reemit reads through vm.read_register: the descriptor of
\* every register written back on the general path, and $sp when the segment
\* wrote it.
GeneralWritebacks(vm) ==
    {id \in DOMAIN vm.register_state :
        /\ vm.register_state[id].bitmap # {}
        /\ ~IsStackPointer(id)
        /\ ~(IsFlagsReg(id) /\ Cardinality(vm.register_state[id].bitmap) <= 4)}
ReemitReads(vm) ==
    [i \in 1..Cardinality(GeneralWritebacks(vm)) |->
        WriteDesc(Ordered(GeneralWritebacks(vm))[i],
                  vm.register_state[Ordered(GeneralWritebacks(vm))[i]])]
    \o (IF SpWritten(vm) THEN <<R("sp", 0, 8)>> ELSE <<>>)

\* The segment once reemit has read it: read_register records references
\* only while is_executing is set.
Consumed(vm) == TouchAll(vm, ReemitReads(vm))

\* symbolic_analysis::dump: the segments when it returns and what it prints
\* of each: the range, the sizes of the states, $sp, the reason and the form
\* of the branch ("cc ? targets[0] : targets[1]" for a conditional one).
DumpLine(seg) ==
    [range |-> <<seg.segment_begin, seg.segment_end>>,
     memory_ops |-> Len(seg.memory_state),
     register_ops |-> RegStateSize(seg.register_state),
     sp |-> RegRead(seg.register_state, R("sp", 0, 8), 0),
     reason |-> seg.exit_reason,
     branch |-> IF seg.exit_reason # "stream_end" THEN <<>>
                ELSE IF seg.branch_cc # NoExpr
                THEN <<seg.branch_cc, seg.branch_targets[1], seg.branch_targets[2]>>
                ELSE seg.branch_targets,
     suffix |-> seg.suffix]
Dump(segs) == [segments |-> segs, out |-> [i \in 1..Len(segs) |-> DumpLine(segs[i])]]

\* ------------------------------------------------------------ the system

VARIABLES
    block,      \* the basic block the analysis is attached to
    segments,   \* symbolic_analysis::segments
    fresh,      \* TRUE when segments is the analysis of the current block
    packs,      \* arguments of the prepare calls made on the current analysis
    once,       \* segments as the first of these prepare calls left them
    origin,     \* the block and the segments the last reemit started from
    emitted,    \* the emission records of the last reemit
    fault       \* the fatal assertion that aborted reemit, or "none"

vars == <<block, segments, fresh, packs, once, origin, emitted, fault>>

NoOrigin == [block |-> MakeBlock(<<>>, 0), segments |-> <<>>]
NoEmission == [ins |-> <<>>, log |-> <<>>, recon |-> <<>>]

Unanalysed ==
    /\ segments = <<>>
    /\ fresh = FALSE
    /\ packs = <<>>
    /\ once = <<>>
    /\ origin = NoOrigin
    /\ emitted = NoEmission
    /\ fault = "none"
InitOver(alphabets) ==
    /\ \E a \in alphabets :
        \E n \in 0..a.len :
            \E body \in [1..n -> a.ops], term \in a.ends :
                block = MakeBlock(body \o term, 0)
    /\ Unanalysed
Init == InitOver(Alphabets)
InitScan == InitOver(ScanAlphabets)
InitSuffix == InitOver(SuffixAlphabets)
InitWriteback ==
    /\ \E n \in 0..MaxMixed :
        \E body \in [1..n -> MixedOps], flags \in SUBSET FlagBits, term \in {<<>>, Jmp(Ra)} :
            block = MakeBlock(body \o FlagWrites(Ascending(flags)) \o term, 0)
    /\ Unanalysed

\* update( block ), called when the analysis is out of date: before the
\* first analysis and after the block has been re-emitted.
Update ==
    /\ fault = "none"
    /\ ~fresh
    /\ segments' = UpdateSegments(block.ins)
    /\ fresh' = TRUE
    /\ packs' = <<>>
    /\ once' = <<>>
    /\ UNCHANGED <<block, origin, emitted, fault>>

\* prepare( pack ), on the analysis of the input block.  A caller keeps one
\* pack setting for an analysis: later calls repeat the first call's argument.
Prepare ==
    /\ fault = "none"
    /\ fresh
    /\ origin = NoOrigin
    /\ Len(packs) < MaxPrepare
    /\ \E pack \in (IF packs = <<>> THEN BOOLEAN ELSE {packs[1]}) :
        /\ segments' = PrepareSegments(segments, pack)
        /\ packs' = Append(packs, pack)
    /\ once' = IF packs = <<>> THEN segments' ELSE once
    /\ UNCHANGED <<block, fresh, origin, emitted, fault>>

\* The end of reemit: the temporary block is copied over the input unless an
\* assertion has failed.
AssignBlock(tb) ==
    /\ fault' = tb.fault
    /\ block' = IF tb.fault = "none" THEN Assigned(tb) ELSE block
    /\ emitted' = [ins |-> tb.ins, log |-> tb.log, recon |-> tb.recon]

\* reemit( block ), into the block of the analysis.  The caller holds an
\* analysis with at least one segment; the block is re-emitted once.
Reemit ==
    /\ fault = "none"
    /\ fresh
    /\ segments # <<>>
    /\ origin = NoOrigin
    /\ \E tb \in {ReemitBlock(block, segments)} : AssignBlock(tb)
    /\ origin' = [block |-> block, segments |-> segments]
    /\ fresh' = FALSE
    /\ segments' = [i \in 1..Len(segments) |-> Consumed(segments[i])]
    /\ packs' = <<>>
    /\ once' = <<>>

Next == Update \/ Prepare \/ Reemit

Spec == Init /\ [][Next]_vars

\* The same operations on the blocks whose branch target is scanned.
SpecScan == InitScan /\ [][Next]_vars

\* The same operations on the blocks of the suffix alphabet.
SpecSuffix == InitSuffix /\ [][Next]_vars

\* The same operations on the blocks of the writeback alphabet.
SpecWriteback == InitWriteback /\ [][Next]_vars

\* The partitioner alone: update on every block.
SpecUpdate == Init /\ [][Update]_vars

\* ---------------------------------------------------------------- claims

NumSegs == Len(segments)
BlockLen == Len(block.ins)
NonLast == 1..(NumSegs - 1)

\* A non-branching instruction that stops the VM where it stands: the gates
\* of execute and the instruction the interpreter gives up on.
Gated(ins) ==
    /\ ~IsBranching(ins)
    /\ \/ ins.vol
       \/ \E i \in 1..Len(ins.ops) : ins.ops[i].reg /\ ins.ops[i].id = "vr"
Stops(ins) == Gated(ins) \/ (~IsBranching(ins) /\ ins.base = "mulhi")

\* The pointer a store writes through, in the state of a segment.
StorePointer(seg, ins) ==
    Simplify(Bin("add", ReadRegister(seg, ins.ops[1]),
                 Const(ins.ops[2].imm, ins.ops[1].cnt), ins.ops[1].cnt), FALSE)

Contiguous ==
    /\ NumSegs > 0
    /\ segments[1].segment_begin = 1
    /\ \A i \in NonLast : segments[i].segment_end = segments[i + 1].segment_begin
    /\ \A i \in 1..NumSegs : segments[i].segment_begin <= segments[i].segment_end
    /\ segments[NumSegs].segment_end = BlockLen + 1

\* C1 as stated: after update(b), for EVERY block b, the segment list is
\* non-empty and contiguous from b.begin to b.end.
C1_EveryBlock == fresh => Contiguous

\* C1 amended: after update(b) of a non-empty block b the segment list is
\* non-empty and contiguous: the first segment begins at b.begin, each end is
\* the next begin, begin <= end, and the last end is b.end.  (For the empty
\* block the list is empty.)
C1_NonEmptyBlock ==
    fresh => IF BlockLen = 0 THEN NumSegs = 0 ELSE Contiguous

C1_Witness ==
    /\ fresh
    /\ NumSegs >= 2
    /\ \E i \in NonLast : segments[i].exit_reason = "alias_failure"
    /\ Len(segments[NumSegs].suffix) >= 1

\* C2 as stated: a segment that ended on vexit or vxcall is a real branch,
\* exiting exactly for vexit, with no condition and exactly one target, in
\* every state update and prepare reach; the assertion of reemit's
\* real-branch path never fails.
EndedReal(seg) ==
    /\ seg.exit_reason = "stream_end"
    /\ seg.segment_end = BlockLen + 1
    /\ BlockLen > 0
    /\ block.ins[BlockLen].base \in {"vexit", "vxcall"}
C2_RealBranch ==
    /\ fresh =>
        \A i \in 1..NumSegs :
            EndedReal(segments[i]) =>
                /\ segments[i].is_branch_real
                /\ segments[i].is_branch_exiting = (block.ins[BlockLen].base = "vexit")
                /\ segments[i].branch_cc = NoExpr
                /\ Len(segments[i].branch_targets) = 1
    /\ fault # "real branch"

\* C4 as stated: every segment but the last stopped on alias_failure,
\* high_arithmetic or unknown_instruction and has exactly one suffix
\* instruction, the one that stopped the VM.
StopReasons == {"alias_failure", "high_arithmetic", "unknown_instruction"}
FirstStop(seg) ==
    CHOOSE p \in seg.segment_begin..seg.segment_end :
        /\ p = seg.segment_end \/ Stops(block.ins[p])
        /\ \A q \in seg.segment_begin..(p - 1) : ~Stops(block.ins[q])
C4_OneSuffix ==
    fresh =>
        \A i \in NonLast :
            /\ segments[i].exit_reason \in StopReasons
            /\ Len(segments[i].suffix) = 1
            /\ segments[i].suffix[1] = FirstStop(segments[i])

\* C4 amended: every segment but the last stopped on alias_failure,
\* high_arithmetic or unknown_instruction; its suffix is empty exactly when
\* the reason is alias_failure, and otherwise it holds one or more stopping
\* instructions, the first being the one that stopped the VM for the segment.
C4_SuffixByReason ==
    fresh =>
        \A i \in NonLast :
            LET seg == segments[i] IN
            /\ seg.exit_reason \in StopReasons
            /\ (seg.exit_reason = "alias_failure") = (seg.suffix = <<>>)
            /\ seg.suffix # <<>> =>
                /\ seg.suffix[1] = FirstStop(seg)
                /\ \A j \in 1..Len(seg.suffix) : Stops(block.ins[seg.suffix[j]])

C4_Witness ==
    /\ fresh
    /\ \E i \in NonLast :
        /\ Len(segments[i].suffix) >= 2
        /\ segments[i].exit_reason = "high_arithmetic"

\* C5: a segment that stopped with alias_failure has an empty suffix, ends at
\* the store that failed, is not the last segment, and the next segment
\* begins at that store with nothing carried over: the store is the first
\* entry of its memory state, written through the pointer as read at the new
\* origin, and its registers are those written from that store on.
WrittenIn(from, to) ==
    {block.ins[p].ops[1].id : p \in {q \in from..(to - 1) : WritesFirst(block.ins[q])}}
C5_AliasFailure ==
    fresh =>
        \A i \in 1..NumSegs :
            LET seg == segments[i] IN
            seg.exit_reason = "alias_failure" =>
                /\ seg.suffix = <<>>
                /\ seg.segment_end <= BlockLen
                /\ block.ins[seg.segment_end].base = "str"
                /\ ~MemAccepts(seg.memory_state, StorePointer(seg, block.ins[seg.segment_end]))
                /\ i < NumSegs
                /\ segments[i + 1].segment_begin = seg.segment_end
                /\ Len(segments[i + 1].memory_state) >= 1
                /\ segments[i + 1].memory_state[1].ptr =
                      StorePointer(NewSegment(seg.segment_end), block.ins[seg.segment_end])
                /\ DOMAIN segments[i + 1].register_state \subseteq
                      WrittenIn(seg.segment_end, segments[i + 1].segment_end)

C5_Witness ==
    /\ fresh
    /\ \E i \in 1..NumSegs :
        /\ segments[i].exit_reason = "alias_failure"
        /\ RegStateSize(segments[i].register_state) > 0

\* C6: a non-branching instruction that is volatile, or has a volatile
\* register operand other than the undefined marker, is never interpreted:
\* execute returns unknown_instruction and leaves the segment as it is; after
\* update it is in exactly one suffix, once, no segment has read a volatile
\* register, and execution resumes at the instruction after it.
InSuffix(p) == {<<i, j>> \in (1..NumSegs) \X (1..BlockLen) :
                    j <= Len(segments[i].suffix) /\ segments[i].suffix[j] = p}
C6_VolatileGate ==
    fresh =>
        \A p \in 1..BlockLen :
            Gated(block.ins[p]) =>
                /\ \A i \in 1..NumSegs :
                      Execute(segments[i], block.ins[p]) =
                          [seg |-> segments[i], reason |-> "unknown_instruction"]
                /\ Cardinality(InSuffix(p)) = 1
                /\ \A i \in 1..NumSegs : "vr" \notin DOMAIN segments[i].register_references
                /\ \/ p = BlockLen
                   \/ \E i \in 1..NumSegs : segments[i].segment_begin = p + 1
                   \/ InSuffix(p + 1) # {}

C6_Witness ==
    /\ fresh
    /\ \E p \in 1..(BlockLen - 1) :
        /\ Gated(block.ins[p]) /\ ~block.ins[p].vol
        /\ \E i \in 1..NumSegs :
            /\ segments[i].segment_begin = p + 1
            /\ RegStateSize(segments[i].register_state) > 0
    /\ \E i \in 1..NumSegs : "ud" \in DOMAIN segments[i].register_references

\* C7 as stated: a segment with a branch has one or two targets, no condition
\* exactly when it has one, and a condition that is 1 bit wide.
C7_OneBitCondition ==
    fresh =>
        \A i \in 1..NumSegs :
            LET seg == segments[i] IN
            Len(seg.branch_targets) > 0 =>
                /\ Len(seg.branch_targets) \in {1, 2}
                /\ (seg.branch_cc = NoExpr) = (Len(seg.branch_targets) = 1)
                /\ seg.branch_cc # NoExpr => seg.branch_cc.w = 1

\* C7 amended: a segment with a branch has one or two targets, and no
\* condition exactly when it has one target (the condition has the width of
\* the js operand or of the recovered sub-expression, which need not be 1).
C7_Cardinality ==
    fresh =>
        \A i \in 1..NumSegs :
            LET seg == segments[i] IN
            /\ Len(seg.branch_targets) \in {0, 1, 2}
            /\ Len(seg.branch_targets) > 0 =>
                (seg.branch_cc = NoExpr) = (Len(seg.branch_targets) = 1)
            /\ Len(seg.branch_targets) = 0 => seg.branch_cc = NoExpr

C7_Witness ==
    /\ fresh
    /\ Len(packs) > 0
    /\ BlockLen > 0
    /\ block.ins[BlockLen].base = "jmp"
    /\ segments[NumSegs].branch_cc # NoExpr
    /\ segments[NumSegs].branch_cc.w > 1
    /\ Len(segments[NumSegs].branch_targets) = 2

\* C3 as stated, for analyses of one segment: after update, reemit and
\* update again, the architectural registers, the memory and the branch of
\* the second analysis equal those of the first.
Canon(e) == Simplify(e, TRUE)
ArchSlices == {Ra, Rb, Fl0}
RegisterEffect(seg) == [op \in ArchSlices |-> Canon(ReadRegister(seg, op))]
MemoryEffect(seg) ==
    [i \in 1..Len(seg.memory_state) |->
        [ptr |-> Canon(seg.memory_state[i].ptr), val |-> Canon(seg.memory_state[i].val)]]
\* Where control goes: the condition and the targets taken when it is set
\* and when it is clear; a constant condition selects its target.
BranchEffect(seg) ==
    LET t == [i \in 1..Len(seg.branch_targets) |-> Canon(seg.branch_targets[i])]
        cc == Canon(seg.branch_cc)
    IN IF Len(t) = 0 THEN [real |-> FALSE, exiting |-> FALSE, cc |-> NoExpr, to |-> <<>>]
       ELSE IF seg.branch_cc = NoExpr
       THEN [real |-> seg.is_branch_real, exiting |-> seg.is_branch_exiting,
             cc |-> NoExpr, to |-> <<t[1]>>]
       ELSE IF IsConst(cc)
       THEN [real |-> seg.is_branch_real, exiting |-> seg.is_branch_exiting,
             cc |-> NoExpr, to |-> <<IF cc.n # 0 THEN t[1] ELSE t[2]>>]
       ELSE [real |-> seg.is_branch_real, exiting |-> seg.is_branch_exiting,
             cc |-> cc, to |-> t]
RoundTripped ==
    /\ fresh
    /\ fault = "none"
    /\ origin # NoOrigin
    /\ Len(origin.segments) = 1
    /\ NumSegs = 1
C3_RoundTrip ==
    RoundTripped =>
        /\ RegisterEffect(segments[1]) = RegisterEffect(origin.segments[1])
        /\ MemoryEffect(segments[1]) = MemoryEffect(origin.segments[1])
        /\ BranchEffect(segments[1]) = BranchEffect(origin.segments[1])

\* C8: for a segment whose final $sp is the initial $sp plus a constant
\* (0 included), reemit emits no mov to $sp, neither among the register
\* writebacks nor in the reconciliation, and the reconciliation advances the
\* temporary block's sp_offset by that constant; a mov to $sp is emitted
\* only when the difference is not a constant.
SpMoves(i) ==
    {j \in 1..Len(emitted.log) :
        /\ emitted.log[j].seg = i
        /\ emitted.log[j].role \in {"reg", "sp"}
        /\ emitted.ins[j].base = "mov"
        /\ emitted.ins[j].ops[1].id = "sp"}
ConstantSp(vm) == HasDelta(ReadRegister(vm, Sp), InitialSp(vm))
SpDelta(vm) == Delta(ReadRegister(vm, Sp), InitialSp(vm))
C8_StackReconciliation ==
    \A i \in 1..Len(emitted.recon) :
        LET vm == origin.segments[i] IN
        /\ ConstantSp(vm) =>
            /\ SpMoves(i) = {}
            /\ emitted.recon[i].after = emitted.recon[i].before + SpDelta(vm)
            /\ emitted.recon[i].sp_offset_d = SpDelta(vm)
            /\ emitted.recon[i].adjusted =
                  origin.block.ins[vm.segment_end - 1].sp_offset + SpDelta(vm)
        /\ SpMoves(i) # {} => ~ConstantSp(vm)

C8_Witness ==
    /\ Len(emitted.recon) >= 2
    /\ \E i \in 1..Len(emitted.recon) :
        /\ ConstantSp(origin.segments[i])
        /\ SpDelta(origin.segments[i]) # 0
    /\ \E i \in 1..Len(emitted.recon) : SpMoves(i) # {}

\* C9: reemit emits the segments in their order, none of a later segment's
\* instructions before one of an earlier segment; within a segment every
\* register writeback comes before every memory writeback and every memory
\* writeback before the branch.
Rank(role) == IF role = "reg" THEN 1 ELSE IF role = "mem" THEN 2 ELSE 3
Ranked == {"reg", "mem", "branch"}
C9_EmissionOrder ==
    \A j, k \in 1..Len(emitted.log) :
        j < k =>
            /\ emitted.log[j].seg <= emitted.log[k].seg
            /\ (/\ emitted.log[j].seg = emitted.log[k].seg
                /\ emitted.log[j].role \in Ranked
                /\ emitted.log[k].role \in Ranked)
               => Rank(emitted.log[j].role) <= Rank(emitted.log[k].role)

C9_Witness ==
    /\ fault = "none"
    /\ \E s \in 1..Len(emitted.recon) :
        /\ s >= 2
        /\ \A role \in Ranked :
            \E j \in 1..Len(emitted.log) :
                emitted.log[j].seg = s /\ emitted.log[j].role = role

\* C10: a second prepare( pack ) with the same argument leaves every
\* segment's register values, memory values, branch condition and branch
\* targets as the first call left them.
PreparedState(segs) ==
    [i \in 1..Len(segs) |->
        <<segs[i].register_state, segs[i].memory_state,
          segs[i].branch_cc, segs[i].branch_targets>>]
C10_PrepareIdempotent ==
    (Len(packs) >= 2 /\ \A i \in 1..Len(packs) : packs[i] = packs[1]) =>
        PreparedState(segments) = PreparedState(once)

C10_Witness ==
    /\ Len(packs) = 2
    /\ packs[1] = packs[2]
    /\ BlockLen > 0
    /\ block.ins[BlockLen].base = "jmp"
    /\ segments[NumSegs].branch_cc # NoExpr
    /\ PreparedState(once) # PreparedState(UpdateSegments(block.ins))
    /\ RegStateSize(segments[NumSegs].register_state) > 0

\* C11: after prepare( pack ) every expression a segment stores is a fixed
\* point of simplify under the pack setting of the call: every defined
\* register value, every memory value, every branch target and the branch
\* condition, those installed by the conditional-jump recovery included.
StoredExpressions(seg) ==
    UNION { {seg.register_state[id].linear_store[o] :
                o \in DOMAIN seg.register_state[id].linear_store} :
            id \in DOMAIN seg.register_state }
    \cup {seg.memory_state[i].val : i \in 1..Len(seg.memory_state)}
    \cup {seg.branch_targets[i] : i \in 1..Len(seg.branch_targets)}
    \cup (IF seg.branch_cc # NoExpr THEN {seg.branch_cc} ELSE {})
C11_SimplifiedAfterPrepare ==
    (fresh /\ Len(packs) > 0) =>
        \A i \in 1..NumSegs :
            \A e \in StoredExpressions(segments[i]) :
                Simplify(e, packs[Len(packs)]) = e

C11_Witness ==
    /\ fresh
    /\ Len(packs) = 1
    /\ packs[1] = FALSE
    /\ BlockLen > 0
    /\ block.ins[BlockLen].base = "jmp"
    /\ segments[NumSegs].branch_cc # NoExpr
    /\ UpdateSegments(block.ins)[NumSegs].branch_cc = NoExpr
    /\ Len(segments[NumSegs].branch_targets) = 2
    /\ Cardinality(StoredExpressions(segments[NumSegs])) >= 4

\* C12: for a non-empty block with no branching instruction, no volatile
\* instruction, no volatile register operand, and no alias_failure or
\* high_arithmetic stop, update produces exactly one segment, spanning the
\* whole block, with an empty suffix and no branch targets.
StraightLine ==
    /\ BlockLen > 0
    /\ \A p \in 1..BlockLen :
        /\ ~IsBranching(block.ins[p])
        /\ ~block.ins[p].vol
        /\ block.ins[p].base # "mulhi"
        /\ \A i \in 1..Len(block.ins[p].ops) :
              ~(block.ins[p].ops[i].reg /\ block.ins[p].ops[i].id \in {"vr", "ud"})
    /\ \A i \in 1..NumSegs : segments[i].exit_reason # "alias_failure"
C12_StraightLine ==
    (fresh /\ StraightLine) =>
        /\ NumSegs = 1
        /\ segments[1].segment_begin = 1
        /\ segments[1].segment_end = BlockLen + 1
        /\ segments[1].suffix = <<>>
        /\ segments[1].branch_targets = <<>>

C12_Witness ==
    /\ fresh
    /\ StraightLine
    /\ BlockLen >= 3
    /\ NumSegs = 1
    /\ Len(segments[1].memory_state) >= 1
    /\ RegStateSize(segments[1].register_state) >= 1

\* C13: reemit and dump leave the segments as they are: is_executing is
\* false in every segment outside execute, so the register reads reemit makes
\* record no reference, and every field of every segment is after reemit, and
\* after dump, what it was before.
C13_ReadOnly ==
    /\ \A i \in 1..NumSegs : ~segments[i].is_executing
    /\ (origin # NoOrigin /\ ~fresh) => segments = origin.segments
    /\ Dump(segments).segments = segments

C13_Witness ==
    /\ origin # NoOrigin
    /\ ~fresh
    /\ fault = "none"
    /\ \E i \in 1..NumSegs :
        /\ Len(ReemitReads(segments[i])) >= 2
        /\ SpWritten(segments[i])
        /\ DOMAIN segments[i].register_references # {}

\* C14: in the conditional-jump recovery the first successful candidate
\* wins: the condition and the targets prepare leaves are those of the first
\* sub-expression, in the order of the scan (the pointer of a memory variable
\* before the variable, a node before its operands), whose two substitutions
\* both change the target; candidates visited later, the memory variable the
\* scan recursed from included, and later prepare calls leave them alone.
RECURSIVE Tried(_)
RECURSIVE TriedAll(_)
Tried(e) ==
    (IF IsMemory(e) THEN Tried(e.args[1]) ELSE <<>>)
    \o <<e>>
    \o (IF IsVariable(e) \/ IsConst(e) THEN <<>> ELSE TriedAll(e.args))
TriedAll(args) == IF args = <<>> THEN <<>> ELSE Tried(args[1]) \o TriedAll(Tail(args))
Wins(statement, c) ==
    /\ ValueMask(c) = 1
    /\ Transform(statement, c, TRUE) # statement
    /\ Transform(statement, c, FALSE) # statement
Winners(statement) ==
    {k \in 1..Len(Tried(statement)) : Wins(statement, Tried(statement)[k])}
FirstWinner(statement) ==
    Tried(statement)[CHOOSE k \in Winners(statement) : \A j \in Winners(statement) : k <= j]
\* The single target of the last segment as update left it, simplified.
ScannedStatement ==
    Simplify(UpdateSegments(block.ins)[NumSegs].branch_targets[1], TRUE)
Recoverable ==
    /\ fresh
    /\ Len(packs) >= 1
    /\ NumSegs > 0
    /\ Len(UpdateSegments(block.ins)[NumSegs].branch_targets) = 1
    /\ UpdateSegments(block.ins)[NumSegs].branch_cc = NoExpr
    /\ Depth(ScannedStatement) > 2
C14_FirstCandidateWins ==
    Recoverable =>
        IF Winners(ScannedStatement) = {}
        THEN /\ segments[NumSegs].branch_cc = NoExpr
             /\ segments[NumSegs].branch_targets = <<ScannedStatement>>
        ELSE /\ segments[NumSegs].branch_cc = FirstWinner(ScannedStatement)
             /\ segments[NumSegs].branch_targets =
                   << Transform(ScannedStatement, FirstWinner(ScannedStatement), TRUE),
                      Transform(ScannedStatement, FirstWinner(ScannedStatement), FALSE) >>

C14_Witness ==
    /\ Recoverable
    /\ Len(packs) = 2
    /\ \E k \in Winners(ScannedStatement), m \in 1..Len(Tried(ScannedStatement)) :
        /\ IsMemory(Tried(ScannedStatement)[m])
        /\ k < m
        /\ Tried(ScannedStatement)[k] = segments[NumSegs].branch_cc
        /\ \E j \in Winners(ScannedStatement) :
              /\ j > m
              /\ Tried(ScannedStatement)[j] # Tried(ScannedStatement)[k]

\* C15 as stated: for a conditional, non-real branch segment the branch
\* reemit emits goes to branch_targets[ 0 ] when the condition is 1 and to
\* branch_targets[ 1 ] when it is 0: js cc, t0, t1 when the condition is held
\* in a register, and a jmp to the target the constant selects when the
\* condition folded to an immediate.  (Stated for analyses of one segment.)
ConditionalBranch(vm) ==
    /\ ~vm.is_branch_real
    /\ vm.branch_cc # NoExpr
    /\ Len(vm.branch_targets) = 2
BranchHeld == BufferWritebacks(NewTemporaryBlock(origin.block), origin.segments[1], 1)
EmittedBranch == emitted.ins[Len(emitted.ins)]
C15_BranchSense ==
    (/\ origin # NoOrigin
     /\ fault = "none"
     /\ Len(origin.segments) = 1
     /\ ConditionalBranch(origin.segments[1])) =>
        IF BranchHeld.branch_cc.reg
        THEN /\ EmittedBranch.base = "js"
             /\ EmittedBranch.ops =
                   <<BranchHeld.branch_cc, BranchHeld.branch_targets[1],
                     BranchHeld.branch_targets[2]>>
        ELSE /\ EmittedBranch.base = "jmp"
             /\ EmittedBranch.ops =
                   <<BranchHeld.branch_targets[IF BranchHeld.branch_cc.imm # 0 THEN 1 ELSE 2]>>

\* C16: update( block ) returns on every block, and the position advances
\* with every segment: each segment covers at least one instruction, a
\* segment that stopped with alias_failure is followed by a segment that
\* begins at the failing store and gets past it (so two consecutive segments
\* never fail at the same instruction), the segments begin at strictly
\* increasing positions, and there are at most as many segments as the block
\* has instructions.
Advances(i) ==
    segments[i].exit_reason = "alias_failure" =>
        /\ segments[i + 1].segment_begin = segments[i].segment_end
        /\ segments[i + 1].segment_end > segments[i].segment_end
C16_UpdateTerminates ==
    fresh =>
        /\ \A i \in 1..NumSegs : segments[i].segment_begin < segments[i].segment_end
        /\ \A i \in NonLast : segments[i].segment_begin < segments[i + 1].segment_begin
        /\ \A i \in NonLast : Advances(i)
        /\ \A i \in 1..NumSegs : segments[i].exit_reason = "alias_failure" => i < NumSegs
        /\ NumSegs <= BlockLen

C16_Witness ==
    /\ fresh
    /\ NumSegs = 3
    /\ segments[1].exit_reason = "alias_failure"
    /\ segments[2].exit_reason = "alias_failure"
    /\ segments[2].segment_end = segments[2].segment_begin + 1

\* C17: empty-segment folding.  After update no segment other than the first
\* has an empty register state and an empty memory state with exit reason
\* high_arithmetic or unknown_instruction; every instruction that stops the
\* VM is in the suffix of the segment whose range holds it, so the stopper of
\* a run that left no state went to the segment before it; the suffix of a
\* segment is in block order and its last instruction is the one before the
\* segment's end; a block that begins with a stopping instruction keeps its
\* first segment, empty, with that instruction first in its suffix.
EmptyState(seg) ==
    Len(seg.memory_state) = 0 /\ RegStateSize(seg.register_state) = 0
Hosts(seg, p) ==
    /\ seg.segment_begin <= p
    /\ p < seg.segment_end
    /\ \E j \in 1..Len(seg.suffix) : seg.suffix[j] = p
SuffixInOrder(seg) ==
    /\ \A j \in 1..(Len(seg.suffix) - 1) : seg.suffix[j] < seg.suffix[j + 1]
    /\ seg.suffix # <<>> => seg.suffix[Len(seg.suffix)] = seg.segment_end - 1
    /\ seg.suffix # <<>> => seg.suffix[1] >= seg.segment_begin
C17_EmptyFolding ==
    fresh =>
        /\ \A i \in 2..NumSegs :
              ~(EmptyState(segments[i])
                /\ segments[i].exit_reason \in {"high_arithmetic", "unknown_instruction"})
        /\ \A p \in 1..BlockLen :
              Stops(block.ins[p]) => \E i \in 1..NumSegs : Hosts(segments[i], p)
        /\ \A i \in 1..NumSegs : SuffixInOrder(segments[i])
        /\ (BlockLen > 0 /\ Stops(block.ins[1])) =>
              /\ EmptyState(segments[1])
              /\ segments[1].segment_begin = 1
              /\ segments[1].suffix[1] = 1

C17_Witness ==
    /\ fresh
    /\ NumSegs = 2
    /\ EmptyState(segments[1])
    /\ Len(segments[1].suffix) = 2
    /\ ~EmptyState(segments[2])

\* C18 as stated: after update, the bits recorded in register_references of
\* a segment are exactly the bits an instruction of the segment's covered
\* range [ segment_begin, segment_end ) read during execute before a write
\* inside the segment had defined them.
ReadOperands(ins) ==
    CASE ins.base \in {"mov", "ldd"} -> <<ins.ops[2]>>
      [] ins.base = "ifs" -> <<ins.ops[2], ins.ops[3]>>
      [] ins.base = "str" -> <<ins.ops[1], ins.ops[3]>>
      [] ins.base \in {"add", "not", "js", "jmp", "vexit", "vxcall"} -> ins.ops
      [] OTHER -> <<>>
RegistersRead(ins) ==
    {ReadOperands(ins)[k] : k \in {j \in 1..Len(ReadOperands(ins)) : ReadOperands(ins)[j].reg}}
\* The instructions the VM of a segment executed to their end.
Executed(seg) ==
    {p \in seg.segment_begin..(seg.segment_end - 1) :
        seg.suffix = <<>> \/ p < seg.suffix[1]}
DefinedBefore(seg, p, op) ==
    \E q \in Executed(seg) :
        /\ q < p
        /\ WritesFirst(block.ins[q])
        /\ block.ins[q].ops[1].id = op.id
        /\ block.ins[q].ops[1].off = op.off
\* The bits read at the positions P before the segment defined them.
UndefinedReads(seg, P) ==
    UNION {UNION {{op.id} \X MaskOf(op) :
                    op \in {o \in RegistersRead(block.ins[p]) : ~DefinedBefore(seg, p, o)}} :
           p \in P}
RecordedBits(seg) ==
    UNION {{id} \X seg.register_references[id] : id \in DOMAIN seg.register_references}
C18_CoveredReads ==
    (fresh /\ origin = NoOrigin) =>
        \A i \in 1..NumSegs :
            RecordedBits(segments[i]) = UndefinedReads(segments[i], Executed(segments[i]))

\* C18 amended: after update, the bits recorded in register_references of a
\* segment are exactly the bits read during execute, before a write inside
\* the segment had defined them, by an instruction of the segment's covered
\* range or by the store that stopped the segment with alias_failure (its
\* operands are read before the memory rejects the write); bits written in
\* the segment before being read are never recorded, recorded bits lie within
\* the masks of the descriptors read, and prepare and reemit remove none.
Attempted(seg) ==
    Executed(seg) \cup
        (IF seg.exit_reason = "alias_failure" THEN {seg.segment_end} ELSE {})
AllReads(seg) ==
    UNION {UNION {{op.id} \X MaskOf(op) : op \in RegistersRead(block.ins[p])} :
           p \in Attempted(seg)}
C18_AttemptedReads ==
    /\ (fresh /\ origin = NoOrigin) =>
          \A i \in 1..NumSegs :
              /\ RecordedBits(segments[i]) =
                    UndefinedReads(segments[i], Attempted(segments[i]))
              /\ RecordedBits(segments[i]) \subseteq AllReads(segments[i])
    /\ (origin # NoOrigin /\ Len(segments) = Len(origin.segments)) =>
          \A i \in 1..NumSegs :
              ~fresh => RecordedBits(origin.segments[i]) \subseteq RecordedBits(segments[i])

C18_Witness ==
    /\ fresh
    /\ packs # <<>>
    /\ \E i \in 1..NumSegs :
        /\ segments[i].exit_reason = "alias_failure"
        /\ RecordedBits(segments[i]) # UndefinedReads(segments[i], Executed(segments[i]))
        /\ \E p \in Executed(segments[i]) :
              \E op \in RegistersRead(block.ins[p]) :
                  /\ DefinedBefore(segments[i], p, op)
                  /\ op.id \notin DOMAIN segments[i].register_references

\* C19: for each segment, the register loop of reemit buffers writebacks for
\* exactly the registers of register_state with a non-empty bitmap other than
\* the stack pointer: for a flags register with at most 4 set bits one 1-bit
\* mov per set bit, to distinct bits; for any other register exactly one mov;
\* none of them targets the stack pointer or a read-only register, and the
\* fatal assertion of the loop does not fail.
RegMovs(i) == {j \in 1..Len(emitted.log) : emitted.log[j] = Tag(i, "reg")}
RegMovsTo(i, id) == {j \in RegMovs(i) : emitted.ins[j].ops[1].id = id}
BitsMoved(i, id) == {emitted.ins[j].ops[1].off : j \in RegMovsTo(i, id)}
WrittenBack(vm, id) ==
    /\ id \in DOMAIN vm.register_state
    /\ vm.register_state[id].bitmap # {}
    /\ ~IsStackPointer(id)
PerBit(vm, id) ==
    IsFlagsReg(id) /\ Cardinality(vm.register_state[id].bitmap) <= 4
MovsFor(i, vm, id) ==
    IF PerBit(vm, id)
    THEN /\ Cardinality(RegMovsTo(i, id)) = Cardinality(vm.register_state[id].bitmap)
         /\ Cardinality(BitsMoved(i, id)) = Cardinality(vm.register_state[id].bitmap)
         /\ \A j \in RegMovsTo(i, id) : emitted.ins[j].ops[1].cnt = 1
    ELSE Cardinality(RegMovsTo(i, id)) = 1
SegmentWritebacks(i, vm) ==
    /\ \A j \in RegMovs(i) :
          /\ emitted.ins[j].base = "mov"
          /\ emitted.ins[j].ops[1].reg
          /\ WrittenBack(vm, emitted.ins[j].ops[1].id)
          /\ ~IsReadOnlyReg(emitted.ins[j].ops[1].id)
    /\ \A id \in DOMAIN vm.register_state : WrittenBack(vm, id) => MovsFor(i, vm, id)
Clones(i) == {j \in 1..Len(emitted.log) : emitted.log[j] = Tag(i, "suffix")}
CloneAt(i, k) == emitted.ins[Ascending(Clones(i))[k]]
SpRelativeRead(ins) ==
    ReadsMemory(ins) /\ IsStackPointer(ins.ops[MemoryBase(ins)].id)
ShiftedOperands(ins, d) ==
    IF SpRelativeRead(ins)
    THEN [ins.ops EXCEPT ![MemoryBase(ins) + 1].imm = @ + d]
    ELSE ins.ops
\* The sp_index of the emitted block in front of position j.
IndexBefore(j) ==
    IF j = 1 THEN 0
    ELSE emitted.ins[j - 1].sp_index +
            (IF WritesSp(emitted.ins[j - 1]) /\ emitted.log[j - 1].role # "suffix"
             THEN 1 ELSE 0)
SpIndexD(i, vm) ==
    IndexBefore(Ascending(Clones(i))[1]) - origin.block.ins[vm.suffix[1]].sp_index
IsClone(c, orig, sp_index_d, sp_offset_d) ==
    /\ c.base = orig.base
    /\ c.vol = orig.vol
    /\ c.ops = ShiftedOperands(orig, sp_offset_d)
    /\ c.sp_index = orig.sp_index + sp_index_d
    /\ c.sp_offset = orig.sp_offset + sp_offset_d
SuffixPlaced(i) ==
    \A j \in 1..Len(emitted.log) :
        \A c \in Clones(i) :
            /\ (emitted.log[j].seg = i
                 /\ emitted.log[j].role \in {"lift", "reg", "mem", "sp"}) => j < c
            /\ (emitted.log[j] = Tag(i, "branch") \/ emitted.log[j].seg > i) => c < j
            /\ emitted.log[j].seg < i => j < c
SuffixCloned(i, vm) ==
    /\ Cardinality(Clones(i)) = Len(vm.suffix)
    /\ \A k \in 1..Len(vm.suffix) :
          IsClone(CloneAt(i, k), origin.block.ins[vm.suffix[k]],
                  SpIndexD(i, vm), emitted.recon[i].sp_offset_d)
C20_SuffixEmission ==
    (origin # NoOrigin /\ fault = "none") =>
        \A i \in 1..Len(origin.segments) :
            SuffixCloned(i, origin.segments[i]) /\ SuffixPlaced(i)

C20_Witness ==
    /\ origin # NoOrigin
    /\ fault = "none"
    /\ ~fresh
    /\ Len(origin.segments) >= 2
    /\ Len(origin.segments[1].suffix) = 2
    /\ emitted.recon[1].sp_offset_d # 0
    /\ SpRelativeRead(origin.block.ins[origin.segments[1].suffix[1]])
    /\ \E j \in 1..Len(emitted.log) : emitted.log[j] = Tag(2, "branch")

====
